---- MODULE Spec2Model ----
(***************************************************************************)
(* Model of the preprocess_eng query pipeline (backend/preprocess_eng):    *)
(* Step 3 language identification and script tagging, the Step 4 code-mix  *)
(* classifier (Fast Lane + Smart Checkpoint), the Step 5 transliteration   *)
(* client and pipeline, the input adapter with its product cache, and the  *)
(* singleton orchestrator.                                                 *)
(*                                                                         *)
(* Confidences are integer percentages (0.85 is 85).  A text is the        *)
(* sequence of its whitespace-separated tokens; a token is a record        *)
(* [lex, cs]: lex is the lower-case word for Latin vocabulary words ("" for *)
(* every other token) and cs the sequence of its characters' classes.      *)
(***************************************************************************)
EXTENDS Integers, Sequences, FiniteSets, TLC

VARIABLES cls, tc, s5, orch, req, last, ih, callers

vars == <<cls, tc, s5, orch, req, last, ih, callers>>

(***************************************************************************)
(* Bounds of the model                                                     *)
(***************************************************************************)
MaxTokens == 2

MaxObjects == 2

MaxLoads == 2

MaxRequests == 2

\* stands for _cache_max_size, the capacity of the product cache
MaxCacheSize == 2

MaxClears == 2

(***************************************************************************)
(* Characters.  A character class stands for one character of that kind:   *)
(* "a" an ASCII letter, "0" an ASCII digit, "De"/"Be"/"Ta"/"Pa" a letter   *)
(* of the Devanagari/Bengali/Tamil/Gurmukhi block, "De0"/"Ta0" a decimal   *)
(* digit of the Devanagari/Tamil block, "x" a non-ASCII symbol outside     *)
(* every listed block (such as the rupee sign).                            *)
(***************************************************************************)
CharClasses == {"a", "0", "De", "De0", "Be", "Ta", "Ta0", "Pa", "x"}

IsAscii(c) == c \in {"a", "0"}

IsDigitChar(c) == c \in {"0", "De0", "Ta0"}

InDevanagariBlock(c) == c \in {"De", "De0"}

InBengaliBlock(c) == c = "Be"

detect_script_unicode_fast(c) ==
    IF IsDigitChar(c) THEN "Number"
    ELSE CASE c = "a" -> "Latin"
           [] c = "De" -> "Devanagari"
           [] c = "Be" -> "Bengali"
           [] c = "Ta" -> "Tamil"
           [] c = "Pa" -> "Punjabi"
           [] OTHER -> "Other"

\* str.isdigit(): every character is a digit (the token is never empty)
IsDigitStr(cs) == \A i \in 1..Len(cs) : IsDigitChar(cs[i])

CountScript(cs, s) ==
    Cardinality({i \in 1..Len(cs) : detect_script_unicode_fast(cs[i]) = s})

FirstIndexOf(cs, s) ==
    CHOOSE i \in 1..Len(cs) :
        /\ detect_script_unicode_fast(cs[i]) = s
        /\ \A j \in 1..(i - 1) : detect_script_unicode_fast(cs[j]) # s

\* max(filtered, key=filtered.get): the largest count, the earliest inserted on a tie
detect_token_script(cs) ==
    LET present == {detect_script_unicode_fast(cs[i]) : i \in 1..Len(cs)}
        filtered == present \ {"Number", "Space", "Other"}
    IN  IF filtered # {}
        THEN CHOOSE s \in filtered :
                 \A t \in filtered :
                     \/ CountScript(cs, s) > CountScript(cs, t)
                     \/ /\ CountScript(cs, s) = CountScript(cs, t)
                        /\ FirstIndexOf(cs, s) <= FirstIndexOf(cs, t)
        ELSE IF "Number" \in present THEN "Number" ELSE "Other"

\* the per-token tagging loop of tokenize_step3_strict
TagToken(tok) ==
    LET cs == tok.cs
    IN  IF IsAscii(cs[1])
        THEN IF IsDigitStr(cs) THEN "Number" ELSE "Latin"
        ELSE IF InDevanagariBlock(cs[1]) THEN "Devanagari"
        ELSE IF InBengaliBlock(cs[1]) THEN "Bengali"
        ELSE detect_token_script(cs)

TagTokens(q) == [i \in 1..Len(q) |-> TagToken(q[i])]

(***************************************************************************)
(* Step 3: whole-query language identification                             *)
(* (Tokenizer._detect_script_uncached)                                     *)
(***************************************************************************)
hindi_words ==
    {"mujhe", "chahiye", "dikhao", "dikhaiye", "dikhaye", "karo", "kariye",
     "ka", "ki", "ke", "ko", "hai", "ho", "hain", "tha", "thi", "the",
     "kya", "kaun", "kaise", "kahan", "dekho", "dekhiye", "lena", "lijiye",
     "dena", "dijiye", "hua", "hoon", "tumhara", "tumhe", "aapka", "aapko",
     "na", "nahi", "nahin", "haan", "toh", "wala", "wali", "mere", "mera"}

bengali_words ==
    {"amake", "amar", "tomar", "dekhao", "dekhaye", "koro", "korte", "koriye",
     "hobe", "ache", "achhe", "niye", "dao", "diye", "kemon", "kothay", "kon",
     "tumi", "ami", "apni", "eta", "ota", "ki", "na", "haan", "chilo", "chhilo"}

english_indicators ==
    {"wireless", "bluetooth", "headphone", "earphone", "laptop",
     "mobile", "phone", "under", "show", "find", "search", "buy"}

\* `indicator in text_lower` is a substring test: the vocabulary words that
\* contain an indicator ("headphone" contains "headphone" and "phone")
ContainsIndicator(lex) ==
    lex \in english_indicators \cup {"headphones", "iphone", "smartphone"}

CountWords(q, words) == Cardinality({i \in 1..Len(q) : q[i].lex \in words})

AllChars(q) == {<<i, j>> \in (1..Len(q)) \X (1..3) : j <= Len(q[i].cs)}

\* len(clean_text): the characters of the tokens and the single spaces between
RECURSIVE TextLen(_)
TextLen(q) == IF q = <<>> THEN 0
              ELSE Len(q[1].cs) + (IF Len(q) > 1 THEN 1 ELSE 0) + TextLen(Tail(q))

native_indic_blocks == {"De", "De0", "Be", "Ta", "Ta0"}

\* SmartRomanizedDetector.detect_romanized_language returns (None, 0.0) when
\* every word is a number or at most two characters long; otherwise its
\* statistical verdict `smart` (one of SmartOutputs) stands
SmartVerdict(q, smart) ==
    IF \A i \in 1..Len(q) : IsDigitStr(q[i].cs) \/ Len(q[i].cs) <= 2
    THEN [lang |-> "None", conf |-> 0]
    ELSE smart

romanized_base_langs == {"hi", "bn", "mr", "pa", "gu", "ta", "te"}

\* 'hi_Latn' -> 'hi'
BaseLang(l) == CASE l = "hi_Latn" -> "hi" [] l = "bn_Latn" -> "bn" [] OTHER -> l

RomanizedRuleConfidence == 65

EnglishFastPathConfidence == 95

SmartAcceptThreshold == 25

\* the characters of the text without its spaces
RECURSIVE Flat(_)
Flat(q) == IF q = <<>> THEN <<>> ELSE q[1].cs \o Flat(Tail(q))

script_to_lang(script) ==
    CASE script = "Latin" -> "en" [] script = "Devanagari" -> "hi"
      [] script = "Bengali" -> "bn" [] script = "Tamil" -> "ta"
      [] script = "Punjabi" -> "pa" [] OTHER -> "unknown"

\* the dominant script of the text and its share of the script characters
_detect_language_unicode_fallback(q) ==
    LET cs == Flat(q)
        counted == {detect_script_unicode_fast(cs[i]) : i \in 1..Len(cs)}
                       \ {"Space", "Number", "Other"}
        total_chars == Cardinality({i \in 1..Len(cs) :
                           detect_script_unicode_fast(cs[i]) \in counted})
    IN  IF counted = {} THEN [lang |-> "unknown", conf |-> 0]
        ELSE LET dominant_script == detect_token_script(cs)
             IN  [lang |-> script_to_lang(dominant_script),
                  conf |-> (CountScript(cs, dominant_script) * 100) \div total_chars]

\* calls of fasttext_model.predict made on one path
LidCalls(native_call, fallback_call) ==
    (IF native_call THEN 1 ELSE 0) + (IF fallback_call THEN 1 ELSE 0)

\* lid: what the fastText model does with the text (ok FALSE: predict
\* raises); smart: what the statistical romanized detector scores for it
_detect_script_uncached(q, lid, smart) ==
    LET hindi_matches == CountWords(q, hindi_words)
        bengali_matches == CountWords(q, bengali_words)
        has_english_word == \E i \in 1..Len(q) : ContainsIndicator(q[i].lex)
        has_only_ascii == \A p \in AllChars(q) : IsAscii(q[p[1]].cs[p[2]])
        has_no_indic == hindi_matches = 0 /\ bengali_matches = 0
        has_native_indic ==
            \E p \in AllChars(q) : q[p[1]].cs[p[2]] \in native_indic_blocks
        has_latin == \E p \in AllChars(q) : q[p[1]].cs[p[2]] = "a"
        rom == SmartVerdict(q, smart)
        rom_lang == BaseLang(rom.lang)
        native_call == has_native_indic
        rom_accepted == /\ has_latin
                        /\ rom.lang # "None"
                        /\ rom.conf > SmartAcceptThreshold
                        /\ rom_lang \in romanized_base_langs
        fallback == _detect_language_unicode_fallback(q)
    IN  IF q = <<>> THEN [lang |-> "unknown", conf |-> 0, lid_calls |-> 0]
        ELSE IF hindi_matches >= 2 \/ bengali_matches >= 2
        THEN [lang |-> IF hindi_matches >= bengali_matches THEN "hi" ELSE "bn",
              conf |-> RomanizedRuleConfidence, lid_calls |-> 0]
        ELSE IF has_english_word /\ has_only_ascii /\ has_no_indic
        THEN [lang |-> "en", conf |-> EnglishFastPathConfidence, lid_calls |-> 0]
        ELSE IF native_call /\ lid.ok
        THEN [lang |-> lid.lang, conf |-> lid.conf,
              lid_calls |-> LidCalls(TRUE, FALSE)]
        ELSE IF rom_accepted
        THEN [lang |-> rom_lang, conf |-> rom.conf,
              lid_calls |-> LidCalls(native_call, FALSE)]
        ELSE IF TextLen(q) < 2
        THEN [lang |-> "unknown", conf |-> 0,
              lid_calls |-> LidCalls(native_call, FALSE)]
        ELSE IF lid.ok
        THEN [lang |-> lid.lang, conf |-> lid.conf,
              lid_calls |-> LidCalls(native_call, TRUE)]
        ELSE [lang |-> fallback.lang, conf |-> fallback.conf,
              lid_calls |-> LidCalls(native_call, TRUE)]

\* tokens, their script tags, and one language label for the whole text
tokenize_step3_strict(q, lid, smart) ==
    IF q = <<>>
    THEN [tokens |-> <<>>, script_tags |-> <<>>, language |-> "unknown",
          language_confidence |-> 0, lid_calls |-> 0]
    ELSE LET l == _detect_script_uncached(q, lid, smart)
         IN  [tokens |-> q, script_tags |-> TagTokens(q), language |-> l.lang,
              language_confidence |-> l.conf, lid_calls |-> l.lid_calls]

(***************************************************************************)
(* Step 4: code-mix classifier (CodeMixDetector)                           *)
(***************************************************************************)
ROMANIZED_PATTERNS ==
    [hindi |-> <<
        {"hai", "hain", "ho", "ka", "ki", "ke", "ko", "se", "me", "ne", "bhi",
         "nahi", "kya", "kaise", "kahan"},
        {"aur", "yah", "woh", "ek", "do", "teen", "char", "panch", "saat",
         "aath", "nau", "das"},
        {"kharidna", "chahiye", "chahta", "chahti", "milega", "kitna", "kitne"},
        {"accha", "bahut", "bohot", "thoda", "jyada", "kam", "zyada"},
        {"mujhe", "mujhko", "tumhe", "tumko", "usko", "dikhao", "dikhaye",
         "dikhaiye"} >>,
     bengali |-> <<
        {"ache", "achhe", "hobe", "korbo", "kora", "kore", "keno", "kothay",
         "kivabe"},
        {"taka", "takar", "dam", "koto", "kemon", "bhalo", "kharap"},
        {"ekta", "duto", "tin", "char", "panch", "choy", "saat", "aat", "noy",
         "dosh"},
        {"ami", "tumi", "apni", "amar", "tomar", "apnar", "oder", "tader"},
        {"amake", "amae", "amay", "tomake", "tomay", "dekhao", "dekhaye", "ar",
         "aar", "ebong"} >>,
     tamil |-> <<
        {"enna", "eppadi", "enga", "eppo", "yaar", "yenna", "yedhu"},
        {"irukku", "irukkum", "seiyyum", "panna", "pannunga"},
        {"nalla", "romba", "konjam", "adhigam", "kammiya"} >>,
     telugu |-> <<
        {"undi", "undhi", "cheyyi", "cheyyandi", "ela", "ekkada", "eppudu"},
        {"manchidi", "chala", "konchem", "ekkuva", "thakkuva"} >>]

\* the dict order of ROMANIZED_PATTERNS
RomanizedLangOrder == <<"hindi", "bengali", "tamil", "telugu">>

PURE_ENGLISH_PATTERNS == <<
    {"the", "a", "an", "is", "are", "was", "were", "be", "been", "being"},
    {"have", "has", "had", "do", "does", "did", "will", "would", "should",
     "could"},
    {"in", "on", "at", "to", "from", "with", "by", "for", "of", "about",
     "under", "over", "below", "above"},
    {"this", "that", "these", "those", "what", "which", "who", "when", "where"},
    {"best", "good", "great", "nice", "cheap", "expensive", "quality",
     "latest", "new"},
    {"buy", "purchase", "order", "price", "cost", "sale", "discount", "offer",
     "deal"},
    {"phone", "mobile", "smartphone", "laptop", "tablet", "headphone",
     "camera", "charger"},
    {"wireless", "bluetooth", "wired", "fast", "charging", "battery",
     "storage"},
    {"samsung", "iphone", "oneplus", "realme", "xiaomi", "oppo", "vivo",
     "nokia", "apple"},
    {"rupees", "india", "online", "shopping", "delivery", "warranty"} >>

\* sum over the patterns of a language of len(p.findall(text))
TotalMatches(q, lang) ==
    LET ps == ROMANIZED_PATTERNS[lang]
    IN  Cardinality({<<k, i>> \in (1..Len(ps)) \X (1..Len(q)) : q[i].lex \in ps[k]})

\* min(total_matches / 2.0, 1.0), in percent
MatchConfidence(n) == IF n >= 2 THEN 100 ELSE 50 * n

detect_romanized_language(q) ==
    LET scored == {k \in 1..Len(RomanizedLangOrder) :
                      TotalMatches(q, RomanizedLangOrder[k]) > 0}
        score(k) == MatchConfidence(TotalMatches(q, RomanizedLangOrder[k]))
    IN  IF q = <<>> \/ scored = {}
        THEN [lang |-> "none", conf |-> 0]
        ELSE LET best == CHOOSE k \in scored :
                             \A j \in scored :
                                 score(k) > score(j) \/ (score(k) = score(j) /\ k <= j)
             IN  [lang |-> RomanizedLangOrder[best], conf |-> score(best)]

count_english_markers(q) ==
    Cardinality({k \in 1..Len(PURE_ENGLISH_PATTERNS) :
                    \E i \in 1..Len(q) : q[i].lex \in PURE_ENGLISH_PATTERNS[k]})

native_scripts == {"Devanagari", "Bengali", "Tamil", "Telugu", "Gujarati",
                   "Kannada", "Malayalam", "Punjabi", "Odia", "Gurmukhi"}

native_langs == {"hi", "bn", "ta", "te", "gu", "kn", "ml", "pa", "or", "mr",
                 "sa", "as"}

non_word_scripts == {"Number", "Digit", "Other", "Unknown", "Space"}

\* word_scripts: the tags that are neither numbers nor punctuation
WordScripts(tags) == {tags[i] : i \in {j \in 1..Len(tags) : tags[j] \notin non_word_scripts}}

CONFIDENCE_THRESHOLD == 85

RuleAConfidence == 95

AmbiguousConfidence == 50

\* the detection result; romanized_language is "absent" when details has no such key
Result(label, confidence, method, rl) ==
    [label |-> label, confidence |-> confidence, method |-> method,
     romanized_language |-> rl]

Ambiguous(method) == Result("ambiguous", AmbiguousConfidence, method, "absent")

\* the entry threshold taken at the upper end of the documented 85-90% range
RuleB_mutant(all_latin, language_hint, language_confidence) ==
    all_latin /\ language_hint = "en" /\ language_confidence > 90

RuleB(all_latin, language_hint, language_confidence) ==
    all_latin /\ language_hint = "en" /\ language_confidence > CONFIDENCE_THRESHOLD

\* a native language list that stops after Hindi and Bengali
RuleA_mutant(all_native, language_hint) ==
    all_native /\ language_hint \in {"hi", "bn"}

RuleA(all_native, language_hint) == all_native /\ language_hint \in native_langs

\* the Fast Lane
detect_heuristic(q, tags, language_hint, language_confidence) ==
    LET word_scripts == WordScripts(tags)
        all_native == \A s \in word_scripts : s \in native_scripts
        all_latin == \A s \in word_scripts : s = "Latin"
    IN  IF q = <<>> \/ tags = <<>> THEN Ambiguous("heuristic")
        ELSE IF word_scripts = {} THEN Ambiguous("heuristic")
        ELSE IF RuleA(all_native, language_hint)
        THEN Result("pure_native", RuleAConfidence, "fast_lane", "absent")
        ELSE IF RuleB(all_latin, language_hint, language_confidence)
        THEN Result("pure_english", language_confidence, "fast_lane", "absent")
        ELSE Ambiguous("heuristic")

SmartMixedConfidence == 85

SmartRomanizedFloor == 70

SmartEnglishConfidence == 75

SmartRomanizedMin == 30

Max(a, b) == IF a >= b THEN a ELSE b

\* the ONNX classifier: onnx.state is "none" when no session is loaded,
\* "failed" when inference raises, "ok" when it predicts [label, confidence]
_classify_with_onnx(onnx) ==
    IF onnx.state = "failed" THEN Ambiguous("onnx_failed")
    ELSE Result(onnx.label, onnx.confidence, "onnx", "absent")

_classify_smart_checkpoint(q, tags, language_hint, language_confidence, onnx) ==
    LET word_scripts == WordScripts(tags)
        has_latin == "Latin" \in word_scripts
        has_native == \E s \in word_scripts : s \in native_scripts
        rom == detect_romanized_language(q)
    IN  IF onnx.state # "none" THEN _classify_with_onnx(onnx)
        ELSE IF has_latin /\ has_native
        THEN Result("mixed", SmartMixedConfidence, "smart_checkpoint_fallback", "absent")
        ELSE IF has_latin /\ language_hint \in native_langs
        THEN Result("romanized_indic", Max(rom.conf, SmartRomanizedFloor),
                    "smart_checkpoint_fallback", rom.lang)
        ELSE IF has_latin /\ language_hint = "en" /\ count_english_markers(q) >= 2
        THEN Result("pure_english", SmartEnglishConfidence,
                    "smart_checkpoint_fallback", "absent")
        ELSE IF has_latin /\ language_hint = "en" /\ rom.conf > SmartRomanizedMin
        THEN Result("romanized_indic", rom.conf, "smart_checkpoint_fallback", rom.lang)
        ELSE Ambiguous("smart_checkpoint_fallback")

SkipThreshold == 75

\* the thresholds compared strictly
should_skip_step5_mutant(r) ==
    \/ r.label = "pure_native" /\ r.confidence > SkipThreshold
    \/ r.label = "pure_english" /\ r.confidence > SkipThreshold

should_skip_step5(r) ==
    \/ r.label = "pure_native" /\ r.confidence >= SkipThreshold
    \/ r.label = "pure_english" /\ r.confidence >= SkipThreshold

SmartUseThreshold == 60

\* the result of detect, with two observations added: fast, the Fast Lane's
\* result, and smart_invoked, whether _classify_smart_checkpoint was called
Detected(r, fast, smart_invoked) ==
    [label |-> r.label, confidence |-> r.confidence, method |-> r.method,
     romanized_language |-> r.romanized_language,
     skip_step5 |-> should_skip_step5(r),
     fast |-> fast, smart_invoked |-> smart_invoked]

\* the Fast Lane's early return left out
detect_mutant(q, tags, language_hint, language_confidence, use_smart_checkpoint, onnx) ==
    LET fast == detect_heuristic(q, tags, language_hint, language_confidence)
        ml == _classify_smart_checkpoint(q, tags, language_hint,
                                         language_confidence, onnx)
    IN  IF use_smart_checkpoint
        THEN IF ml.confidence > SmartUseThreshold
             THEN Detected(ml, fast, TRUE)
             ELSE Detected(fast, fast, TRUE)
        ELSE Detected(fast, fast, FALSE)

detect(q, tags, language_hint, language_confidence, use_smart_checkpoint, onnx) ==
    LET fast == detect_heuristic(q, tags, language_hint, language_confidence)
        ml == _classify_smart_checkpoint(q, tags, language_hint,
                                         language_confidence, onnx)
    IN  IF fast.label \in {"pure_native", "pure_english"}
        THEN Detected(fast, fast, FALSE)
        ELSE IF fast.label = "ambiguous" /\ use_smart_checkpoint
        THEN IF ml.confidence > SmartUseThreshold
             THEN Detected(ml, fast, TRUE)
             ELSE Detected(fast, fast, TRUE)
        ELSE Detected(fast, fast, FALSE)

(***************************************************************************)
(* Tokens: a Latin vocabulary word, and a token given by its characters     *)
(***************************************************************************)
W(lex) == [lex |-> lex, cs |-> <<"a", "a", "a">>]

C(cs) == [lex |-> "", cs |-> cs]

(***************************************************************************)
(* Step 2: spell corrector (SpellCorrector), token by token                *)
(***************************************************************************)
\* the entries of the rewrite table that touch the model's vocabulary
REWRITE_RULES(lex) ==
    CASE lex = "wireles" -> "wireless"
      [] lex = "readmi" -> "redmi"
      [] OTHER -> lex

\* short tokens and numeric patterns are not spell-checked
_should_preserve(tok) == Len(tok.cs) < 3 \/ IsDigitStr(tok.cs)

\* the loaded dictionary holds every corrected vocabulary word of the model,
\* so the closest suggestion for such a word is the word itself
_symspell_correct(lex) == lex

_normalize_units(lex) ==
    CASE lex \in {"taka", "rs", "inr", "rupaye", "rupya"} -> "rupees"
      [] lex \in {"pcs", "pc"} -> "pieces"
      [] OTHER -> lex

CorrectToken(tok) ==
    LET rewritten == [tok EXCEPT !.lex = REWRITE_RULES(tok.lex)]
        checked == IF _should_preserve(rewritten) THEN rewritten.lex
                   ELSE _symspell_correct(rewritten.lex)
    IN  [tok EXCEPT !.lex = _normalize_units(checked)]

correct(text) ==
    IF text = <<>> THEN <<>>
    ELSE [i \in 1..Len(text) |-> CorrectToken(text[i])]

(***************************************************************************)
(* Step 5: transliteration client (TransliterationClient)                  *)
(***************************************************************************)
\* what GET /health may answer when the client is constructed
ProbeOutcomes == {"conn_error", "status_500", "not_loaded", "key_missing", "loaded"}

\* what POST /transliterate may answer
PostOutcomes == {"ok", "status_500", "timeout", "conn_error"}

\* what GET /languages may answer (the empty set also stands for a failure)
LanguageReplies == {{}, {"hi", "bn", "ta"}}

NoClient == [exists |-> FALSE, _is_healthy |-> FALSE, cache |-> {}]

\* every 200 answer taken as healthy
_check_service_health_mutant(probe) ==
    probe \in {"loaded", "not_loaded", "key_missing"}

_check_service_health(probe) == probe = "loaded"

TransliterationClient(probe) ==
    [exists |-> TRUE, _is_healthy |-> _check_service_health(probe), cache |-> {}]

get_transliteration_client(client, probe) ==
    IF client.exists THEN client ELSE TransliterationClient(probe)

is_available(client) == client._is_healthy

get_supported_languages(client, reply) ==
    IF ~client._is_healthy THEN {} ELSE reply

\* the service's answer: tokens of ASCII letters come back in the target script
ScriptOf(lang) ==
    CASE lang = "hi" -> "De" [] lang = "bn" -> "Be" [] lang = "ta" -> "Ta"
      [] OTHER -> "x"

ServiceTransliteration(text, lang) ==
    [i \in 1..Len(text) |->
        IF \A k \in 1..Len(text[i].cs) : text[i].cs[k] = "a"
        THEN C(<<ScriptOf(lang), ScriptOf(lang)>>)
        ELSE text[i]]

\* the connection-error handler without its health update
HealthAfterPost_mutant(healthy, post) == healthy

\* _is_healthy after a POST that ended as `post`
HealthAfterPost(healthy, post) == IF post = "conn_error" THEN FALSE ELSE healthy

\* the timeout of the POST in _transliterate_cached, whatever timeout the
\* caller of transliterate passed
PostTimeout == 3

\* a call result: the client afterwards, whether the call raised, the text it
\* returned, the answer to the POST it made ("none": no POST), and the
\* timeout and the number of attempts of that POST (the session's adapter has
\* max_retries=0)
_transliterate_cached(client, text, lang, post) ==
    LET hit == {e \in client.cache : e.text = text /\ e.lang = lang}
    IN  IF hit # {}
        THEN [client |-> client, raised |-> FALSE,
              out |-> (CHOOSE e \in hit : TRUE).out, post |-> "none",
              timeout |-> 0, attempts |-> 0]
        ELSE IF post = "ok"
        THEN LET out == ServiceTransliteration(text, lang)
             IN  [client |-> [client EXCEPT !.cache =
                                 @ \cup {[text |-> text, lang |-> lang, out |-> out]}],
                  raised |-> FALSE, out |-> out, post |-> post,
                  timeout |-> PostTimeout, attempts |-> 1]
        ELSE [client |-> [client EXCEPT !._is_healthy = HealthAfterPost(@, post)],
              raised |-> TRUE, out |-> text, post |-> post,
              timeout |-> PostTimeout, attempts |-> 1]

transliterate(client, text, lang, post) ==
    IF ~client._is_healthy
    THEN [client |-> client, raised |-> TRUE, out |-> text, post |-> "none",
          timeout |-> 0, attempts |-> 0]
    ELSE _transliterate_cached(client, text, lang, post)

(***************************************************************************)
(* Step 5: transliteration pipeline (Step5TransliterationPipeline)         *)
(***************************************************************************)
NoStep5 == [exists |-> FALSE, supported_languages |-> {}]

LANGUAGE_NAME_TO_ISO(name, default) ==
    CASE name = "hindi" -> "hi" [] name = "bengali" -> "bn"
      [] name = "tamil" -> "ta" [] name = "telugu" -> "te"
      [] OTHER -> default

lang_normalization(t) ==
    CASE t \in {"hin_Deva", "hi_Latn"} -> "hi"
      [] t \in {"ben_Beng", "bn_Latn"} -> "bn"
      [] t = "tam_Taml" -> "ta"
      [] t = "eng" -> "en"
      [] OTHER -> t

\* get_step5_pipeline(): the singletons afterwards, whether it raised, and the
\* answer to the health probe it made ("none": no probe)
get_step5_pipeline(pipeline, client, probe, reply) ==
    IF pipeline.exists
    THEN [s5 |-> pipeline, tc |-> client, raised |-> FALSE, probe |-> "none"]
    ELSE LET c == get_transliteration_client(client, probe)
             made == IF client.exists THEN "none" ELSE probe
         IN  IF ~is_available(c)
             THEN [s5 |-> pipeline, tc |-> c, raised |-> TRUE, probe |-> made]
             ELSE [s5 |-> [exists |-> TRUE,
                           supported_languages |-> get_supported_languages(c, reply)],
                   tc |-> c, raised |-> FALSE, probe |-> made]

Passthrough(query, client) ==
    [text |-> query, client |-> client, raised |-> FALSE, called |-> FALSE,
     post |-> "none", healthy_before |-> client._is_healthy]

\* the target code process works with; romanized_language "None" is the
\* argument left out
ResolveTarget(target_lang, romanized_language) ==
    lang_normalization(IF romanized_language # "None"
                       THEN LANGUAGE_NAME_TO_ISO(romanized_language, target_lang)
                       ELSE target_lang)

\* process without its check of the supported languages
process_mutant(pipeline, client, query, flags, target_lang, romanized_language, post) ==
    LET target == ResolveTarget(target_lang, romanized_language)
    IN  IF (flags.native /\ ~flags.romanized) \/ (~flags.romanized /\ ~flags.native)
           \/ target = "en"
        THEN Passthrough(query, client)
        ELSE LET r == transliterate(client, query, target, post)
             IN  [text |-> r.out, client |-> r.client, raised |-> r.raised,
                  called |-> TRUE, post |-> r.post,
                  healthy_before |-> client._is_healthy]

\* Step5TransliterationPipeline.process
process(pipeline, client, query, flags, target_lang, romanized_language, post) ==
    LET target == ResolveTarget(target_lang, romanized_language)
    IN  IF flags.native /\ ~flags.romanized THEN Passthrough(query, client)
        ELSE IF ~flags.romanized /\ ~flags.native THEN Passthrough(query, client)
        ELSE IF target = "en" THEN Passthrough(query, client)
        ELSE IF target \notin pipeline.supported_languages
        THEN Passthrough(query, client)
        ELSE LET r == transliterate(client, query, target, post)
             IN  [text |-> r.out, client |-> r.client, raised |-> r.raised,
                  called |-> TRUE, post |-> r.post,
                  healthy_before |-> client._is_healthy]

(***************************************************************************)
(* Orchestrator (OptimizedSemanticPipeline): singleton construction        *)
(***************************************************************************)
ObjIds == 1..MaxObjects

\* constructor arguments: the defaults, or a configuration dictionary with
\* debug mode on
ConstructorArgs ==
    {[config |-> "None", debug_mode |-> FALSE],
     [config |-> "custom", debug_mode |-> TRUE]}

\* the answers the environment is asked for: a health probe only when the
\* client is built, the language list only when the Step 5 pipeline is built
ProbesFor(client) == IF client.exists THEN {"none"} ELSE ProbeOutcomes

RepliesFor(pipeline) == IF pipeline.exists THEN {{}} ELSE LanguageReplies

\* what loading the other components may do: the tokenizer's native library
\* is loaded before Step 5, the models and the vector index after it
Deps == {"ok", "tokenizer_missing", "later_failure"}

\* the total latency of a request in milliseconds: an even value, so that
\* with at most MaxRequests requests every running average is a whole number
Latencies == {40}

\* normal_latencies is not an entry of the dictionary: it records the total
\* latencies of the requests that reached the end of process_async
NoMetrics == [set |-> FALSE, total_queries |-> 0, cache_hits |-> 0,
              cache_misses |-> 0, avg_latency |-> 0, normal_latencies |-> <<>>]

FreshMetrics == [set |-> TRUE, total_queries |-> 0, cache_hits |-> 0,
                 cache_misses |-> 0, avg_latency |-> 0,
                 normal_latencies |-> <<>>]

\* "Update running average" at the end of process_async
UpdateRunningAverage(metrics, total_latency) ==
    LET prev_avg == metrics.avg_latency
        n == metrics.total_queries
    IN  [metrics EXCEPT
            !.avg_latency = (prev_avg * (n - 1) + total_latency) \div n,
            !.normal_latencies = Append(@, total_latency)]

\* an object before __init__ has run on it; _initialized "class" is the
\* attribute not set on the object, so that a read finds the class attribute
BlankObject ==
    [_initialized |-> "class", config |-> "unset", debug_mode |-> FALSE,
     components |-> "none", loads |-> 0, metrics |-> NoMetrics,
     translate_cache |-> {}, embedding_cache |-> {}]

\* the class attributes, the module's _pipeline_instance, the objects
\* allocated so far, and how many objects existed when reset_for_testing was
\* called, if no pipeline has been handed out since (-1 otherwise)
NoOrchestrator ==
    [_instance |-> 0, _initialized |-> FALSE, allocated |-> 0,
     objs |-> [i \in ObjIds |-> BlankObject], _pipeline_instance |-> 0,
     existed_at_reset |-> -1]

__new__(class) ==
    IF class._instance = 0
    THEN [class EXCEPT !._instance = class.allocated + 1,
                       !.allocated = class.allocated + 1]
    ELSE class

\* the guard reading the class attribute instead of the object's
AlreadyInitialized_mutant(self, class_initialized) == class_initialized

\* self._initialized as __init__ reads it
AlreadyInitialized(self, class_initialized) ==
    IF self._initialized = "class" THEN class_initialized ELSE TRUE

_initialize_components(self, pipeline, client, deps, probe, reply) ==
    LET partial == [self EXCEPT !.components = "partial", !.loads = @ + 1]
        g == get_step5_pipeline(pipeline, client, probe, reply)
    IN  IF deps = "tokenizer_missing"
        THEN [obj |-> partial, s5 |-> pipeline, tc |-> client, raised |-> TRUE,
              probe |-> "none", cached |-> FALSE]
        ELSE IF g.raised \/ deps = "later_failure"
        THEN [obj |-> partial, s5 |-> g.s5, tc |-> g.tc, raised |-> TRUE,
              probe |-> g.probe, cached |-> FALSE]
        ELSE [obj |-> [self EXCEPT !.components = "all", !.loads = @ + 1],
              s5 |-> g.s5, tc |-> g.tc, raised |-> FALSE, probe |-> g.probe,
              cached |-> FALSE]

__init__(self, class_initialized, pipeline, client, config, debug_mode, deps, probe, reply) ==
    IF AlreadyInitialized(self, class_initialized)
    THEN [obj |-> self, s5 |-> pipeline, tc |-> client, raised |-> FALSE,
          probe |-> "none", cached |-> TRUE]
    ELSE LET configured ==
                 [self EXCEPT !.config = IF config = "None" THEN "empty" ELSE config,
                              !.debug_mode = debug_mode]
             r == _initialize_components(configured, pipeline, client, deps,
                                         probe, reply)
         IN  IF r.raised THEN r
             ELSE [r EXCEPT !.obj = [r.obj EXCEPT !.metrics = FreshMetrics,
                                                  !._initialized = "True"]]

\* everything process_async touches on the object is there
CanServe(self) == self.components = "all" /\ self.metrics.set

(***************************************************************************)
(* Orchestrator: one request (process_async)                               *)
(***************************************************************************)
StageOrder ==
    <<"input_adapter", "spell_corrector", "tokenizer", "code_mix",
      "step5_routing", "feature_extraction", "early_exit_check",
      "synonym_expansion", "embedding", "vector_search", "product_resolution">>

\* feature extraction moved in front of the Step 5 routing
NextStage_mutant(stage) ==
    CASE stage = "code_mix" -> "feature_extraction"
      [] stage = "feature_extraction" -> "step5_routing"
      [] stage = "step5_routing" -> "early_exit_check"
      [] stage = "product_resolution" -> "returned"
      [] OTHER -> StageOrder[(CHOOSE i \in 1..Len(StageOrder) :
                                  StageOrder[i] = stage) + 1]

\* the stage process_async runs after `stage` has returned
NextStage(stage) ==
    IF stage = "product_resolution" THEN "returned"
    ELSE StageOrder[(CHOOSE i \in 1..Len(StageOrder) : StageOrder[i] = stage) + 1]

\* the input kept as it came
strip_mutant(user_input) ==
    IF user_input.pad THEN <<W(" ")>> \o user_input.toks \o <<W(" ")>>
    ELSE user_input.toks

\* InputHandler.process on a text query: the input without surrounding blanks
strip(user_input) == user_input.toks

lang_map(source_lang) ==
    CASE source_lang \in {"hi", "hin_Deva", "hi_Latn"} -> "hin_Deva"
      [] source_lang \in {"bn", "ben_Beng", "bn_Latn"} -> "ben_Beng"
      [] source_lang \in {"ta", "tam_Taml"} -> "tam_Taml"
      [] OTHER -> "hin_Deva"

\* the "romanized" flag _cached_translate builds from the source language
RomanizedSource(source_lang) ==
    \/ source_lang \in {"hi_Latn", "bn_Latn"}
    \/ source_lang \in {"hi", "bn", "te", "ta", "mr", "gu", "kn", "ml", "pa"}

\* a routing result: the object and the client afterwards, the text returned,
\* whether it raised, and the client call it made
_cached_translate(self, pipeline, client, text, source_lang, lang_confidence, post) ==
    LET hit == {e \in self.translate_cache :
                   e.text = text /\ e.lang = source_lang /\ e.conf = lang_confidence}
        missed == [self EXCEPT !.metrics.cache_misses = @ + 1]
        r == process(pipeline, client, text,
                     [romanized |-> RomanizedSource(source_lang), native |-> FALSE],
                     lang_map(source_lang), "None", post)
    IN  IF hit # {}
        THEN [obj |-> self, client |-> client, text |-> (CHOOSE e \in hit : TRUE).out,
              raised |-> FALSE, called |-> FALSE, post |-> "none",
              healthy_before |-> client._is_healthy]
        ELSE [obj |-> IF r.raised THEN missed
                      ELSE [missed EXCEPT !.translate_cache =
                               @ \cup {[text |-> text, lang |-> source_lang,
                                        conf |-> lang_confidence, out |-> r.text]}],
              client |-> r.client, text |-> r.text, raised |-> r.raised,
              called |-> r.called, post |-> r.post,
              healthy_before |-> r.healthy_before]

Skipped(self, client, text) ==
    [obj |-> self, client |-> client, text |-> text, raised |-> FALSE,
     called |-> FALSE, post |-> "none", healthy_before |-> client._is_healthy]

_should_skip_translation(lang) == lang = "en"

\* the Step 5 branch of process_async; quick: the translation took under 5 ms
RouteStep5(self, pipeline, client, corrected_text, detected_lang, lang_confidence, code_mix_result, post, quick) ==
    LET script_label == code_mix_result.label
        code_mix_confidence == code_mix_result.confidence
        romanized_lang == IF code_mix_result.romanized_language = "absent"
                          THEN "hindi" ELSE code_mix_result.romanized_language
    IN  IF script_label = "pure_english" /\ code_mix_confidence > 70
        THEN Skipped(self, client, corrected_text)
        ELSE IF script_label = "pure_native" /\ code_mix_confidence > 85
        THEN _cached_translate(self, pipeline, client, corrected_text,
                               detected_lang, lang_confidence, post)
        ELSE IF script_label \in {"romanized_indic", "mixed"}
        THEN LET r == process(pipeline, client, corrected_text,
                              [romanized |-> script_label = "romanized_indic",
                               native |-> FALSE],
                              "en", romanized_lang, post)
             IN  [obj |-> self, client |-> r.client, text |-> r.text,
                  raised |-> r.raised, called |-> r.called, post |-> r.post,
                  healthy_before |-> r.healthy_before]
        ELSE IF _should_skip_translation(detected_lang)
        THEN Skipped(self, client, corrected_text)
        ELSE LET r == _cached_translate(self, pipeline, client, corrected_text,
                                        detected_lang, lang_confidence, post)
             IN  IF ~r.raised /\ quick
                 THEN [r EXCEPT !.obj.metrics.cache_hits = @ + 1]
                 ELSE r

\* PATTERNS['category'] on the model's vocabulary: the first category word
PATTERNS_category(text) ==
    LET words == {"laptop", "phone", "charger"}
        hits == {i \in 1..Len(text) : text[i].lex \in words}
    IN  IF hits = {} THEN "None"
        ELSE text[CHOOSE i \in hits : \A j \in hits : i <= j].lex

\* brand and specification clues; "8gb ram" and "128gb storage" are the
\* vocabulary's tokens matched by the ram and storage patterns
_infer_category_from_context(text) ==
    LET Has(words) == \E i \in 1..Len(text) : text[i].lex \in words
        has_ram == Has({"8gb ram"})
        has_storage == Has({"128gb storage"})
    IN  IF Has({"redmi", "samsung"}) /\ (Has({"5g", "4g"}) \/ (has_ram /\ has_storage))
        THEN "phone"
        ELSE IF Has({"dell", "hp"}) /\ (Has({"intel", "ssd"}) \/ (has_ram /\ has_storage))
        THEN "laptop"
        ELSE IF Has({"p1"}) /\ (has_ram \/ has_storage)
        THEN "phone"
        ELSE "None"

\* FeatureExtractor.extract: the category with its confidence tag; it never
\* reports a product code.  use_ner: the extractor has its NER model; ner: the
\* category that model finds in the text.  The filters applied afterwards
\* keep the three category keys as they are.
extract(text, use_ner, ner) ==
    LET regex == PATTERNS_category(text)
        inferred == IF regex = "None" THEN _infer_category_from_context(text)
                    ELSE "None"
        \* after FALLBACK 1
        c1 == IF inferred # "None"
              THEN [category |-> inferred, category_confidence |-> 85,
                    category_method |-> "context"]
              ELSE [category |-> regex, category_confidence |-> 0,
                    category_method |-> "None"]
        \* after FALLBACK 2 and the tagging that follows it
        c2 == IF c1.category = "None" /\ use_ner
              THEN IF ner # "None"
                   THEN [category |-> ner, category_confidence |-> 75,
                         category_method |-> "ner"]
                   ELSE [c1 EXCEPT !.category_confidence = 0,
                                   !.category_method = "none"]
              ELSE IF c1.category # "None"
              THEN [c1 EXCEPT !.category_confidence = 95,
                              !.category_method = "regex"]
              ELSE [c1 EXCEPT !.category_confidence = 0,
                              !.category_method = "none"]
    IN  [product_code |-> "None", category |-> c2.category,
         category_confidence |-> c2.category_confidence,
         category_method |-> c2.category_method]

\* SynonymMapper.expand_query on the model's vocabulary
expand_query(text) ==
    IF \E i \in 1..Len(text) : text[i].lex = "best"
    THEN Append(text, W("good")) ELSE text

\* the key under which process_async records the elapsed time of a stage;
\* the early-exit lookup is timed only when it is made
StageTimeKeys(stage) ==
    CASE stage = "input_adapter" -> {"step1_input_normalization"}
      [] stage = "spell_corrector" -> {"step2_spell_correction"}
      [] stage = "tokenizer" -> {"step3_tokenization_and_detection"}
      [] stage = "code_mix" -> {"step4_code_mix_detection"}
      [] stage = "step5_routing" -> {"step5_translation"}
      [] stage = "feature_extraction" -> {"step6_feature_extraction"}
      [] stage = "synonym_expansion" -> {"step7_synonym_expansion"}
      [] stage = "embedding" -> {"step8_embedding"}
      [] stage = "vector_search" -> {"vector_search"}
      [] stage = "product_resolution" -> {"product_resolution"}
      [] OTHER -> {}

\* a response, by the keys of its query_info and metrics dictionaries and the
\* stage times it reports; no call has returned yet
NoResponse ==
    [returned |-> FALSE, query_info |-> {}, metrics |-> {}, early_exit |-> FALSE,
     stage_times_ms |-> {}]

\* the dictionary returned on an exact product code match
early_exit_result(stage_times) ==
    [returned |-> TRUE,
     query_info |-> {"original_query", "normalized", "corrected",
                     "detected_language", "tokens", "features"},
     metrics |-> {"total_latency_ms", "stage_times_ms", "early_exit",
                  "optimizations"},
     early_exit |-> TRUE,
     stage_times_ms |-> stage_times]

\* the dictionary returned at the end of process_async
result(stage_times, include_metadata) ==
    [returned |-> TRUE,
     query_info |-> {"original_query", "normalized", "corrected",
                     "processed_query", "detected_language",
                     "language_confidence", "tokens", "script_tags", "features"},
     metrics |-> IF include_metadata
                 THEN {"total_latency_ms", "stage_times_ms", "early_exit",
                       "optimizations", "cache_hit_rate"}
                 ELSE {},
     early_exit |-> FALSE,
     stage_times_ms |-> IF include_metadata THEN stage_times ELSE {}]

\* what a caller of process_async holds after an exception: the exception
\* object; no exception yet
NoFailure == [type |-> "none", message |-> "none"]

\* the exception Step5TransliterationPipeline.process raises, which
\* process_async lets through
RuntimeError(message) == [type |-> "RuntimeError", message |-> message]

(***************************************************************************)
(* Inputs of the classification runs                                       *)
(***************************************************************************)
SampleTokens ==
    {W("mujhe"), W("chahiye"), W("amake"), W("wireless"), W("best"), W("redmi"),
     C(<<"0", "0">>), C(<<"De", "De">>), C(<<"De0", "De0">>), C(<<"Be", "Be">>),
     C(<<"Ta", "Ta">>), C(<<"Ta0", "Ta0">>), C(<<"Pa">>), C(<<"x">>),
     C(<<"Ta", "a">>)}

Queries == UNION {[1..n -> SampleTokens] : n \in 0..MaxTokens}

Labels == {"pure_english", "pure_native", "romanized_indic", "mixed", "ambiguous"}

\* what the fastText model may predict
LidOutputs ==
    [lang : {"en", "hi", "ta", "ne"}, conf : {60, 85, 86}, ok : {TRUE}]
        \cup {[lang |-> "none", conf |-> 0, ok |-> FALSE]}

\* what the statistical romanized detector may return
SmartOutputs == {[lang |-> "None", conf |-> 0], [lang |-> "hi_Latn", conf |-> 45],
                 [lang |-> "bn_Latn", conf |-> 30]}

OnnxOutputs ==
    {[state |-> "none", label |-> "ambiguous", confidence |-> 0],
     [state |-> "failed", label |-> "ambiguous", confidence |-> 0]}
    \cup [state : {"ok"}, label : Labels, confidence : {60, 75}]

\* hints a caller of detect may pass
HintLangs == {"en", "hi", "ne", "unknown"}

HintConfs == {0, 75, 85, 86, 95}

NoStep3 == [tokens |-> <<>>, script_tags |-> <<>>, language |-> "unknown",
            language_confidence |-> 0, lid_calls |-> 0]

NoResult == Detected(Ambiguous("none"), Ambiguous("none"), FALSE)


(***************************************************************************)
(* Step 1: input adapter (InputHandler) on product URLs, run next to a     *)
(* copy whose product cache is never cleared                               *)
(***************************************************************************)
\* a product URL: its host, the product id written in it ("None": none) and
\* the rest of its path
Urls == [domain : {"amazon", "snapdeal", "example", "bitly"},
         id : {"None", "B01"}, path : {"p1", "p2"}]

\* text queries given to the adapter; pad: the input has surrounding blanks
TextInputs ==
    {[pad |-> TRUE, toks |-> <<W("redmi")>>],
     [pad |-> FALSE, toks |-> <<W("redmi")>>],
     [pad |-> TRUE, toks |-> <<>>]}

\* what the HEAD request of _expand_url and the scraper may do
HeadOutcomes == {"ok", "error"}

ScrapeOutcomes == {"page", "error"}

\* the raw input as a string: the blanks around it are part of it
RawString(user_input) ==
    IF user_input.pad THEN <<W(" ")>> \o user_input.toks \o <<W(" ")>>
    ELSE user_input.toks

_is_shortened_url(url) == url.domain = "bitly"

\* InputHandler(timeout=5), as the orchestrator builds it: self.timeout
InputHandlerTimeout == 5

\* _expand_url without its exception handlers: a failed HEAD propagates
_expand_url_mutant(short_url, head) ==
    IF head = "ok"
    THEN [url |-> [short_url EXCEPT !.domain = "amazon"], raised |-> FALSE,
          timeout |-> InputHandlerTimeout, attempts |-> 1]
    ELSE [url |-> short_url, raised |-> TRUE,
          timeout |-> InputHandlerTimeout, attempts |-> 1]

\* the final URL of the redirects (a page of the first platform), or the
\* short URL when the HEAD request fails; the one HEAD request is sent with
\* timeout=self.timeout on a session that does not retry
_expand_url(short_url, head) ==
    IF head = "ok"
    THEN [url |-> [short_url EXCEPT !.domain = "amazon"], raised |-> FALSE,
          timeout |-> InputHandlerTimeout, attempts |-> 1]
    ELSE [url |-> short_url, raised |-> FALSE,
          timeout |-> InputHandlerTimeout, attempts |-> 1]

_extract_platform_info(url) ==
    CASE url.domain = "amazon" -> [platform |-> "amazon", product_id |-> url.id]
      [] url.domain = "snapdeal" -> [platform |-> "snapdeal", product_id |-> "None"]
      [] OTHER -> [platform |-> "None", product_id |-> "None"]

\* the page behind a URL: the id names the product where there is one, the
\* path otherwise; one page carries no product name
ProductPage(url) ==
    IF url.id # "None" THEN [name |-> <<W(url.domain), W(url.id)>>]
    ELSE IF url.domain = "amazon" /\ url.path = "p2" THEN [name |-> <<>>]
    ELSE [name |-> <<W(url.domain), W(url.path)>>]

\* the scraped product; found FALSE is the None returned when the scraper
\* fails or the page yields no name
_scrape_product_url(url, scrape) ==
    IF scrape = "error" THEN [found |-> FALSE, name |-> <<>>]
    ELSE [found |-> ProductPage(url).name # <<>>, name |-> ProductPage(url).name]

\* the product's name, followed by its other attributes
_product_to_text(product_data) == product_data.name \o <<W("price")>>

\* the URL itself as the query text
UrlText(url) == <<W("https"), W(url.domain), W(url.id), W(url.path)>>

\* the key of the slow path: the product id is looked up with the URL as the
\* default of a key that is always present
CacheKey(platform, product_id, url) == <<platform, product_id>>

\* a cache whose lookups always miss
Cached_mutant(cache, key) == {}

Cached(cache, key) == {i \in 1..Len(cache) : cache[i].key = key}

\* eviction of the newest entry
_cache_product_mutant(cache, key, product_data) ==
    LET kept == IF Len(cache) >= MaxCacheSize
                THEN SubSeq(cache, 1, Len(cache) - 1) ELSE cache
    IN  Append(kept, [key |-> key, data |-> product_data])

_cache_product(cache, key, product_data) ==
    LET kept == IF Len(cache) >= MaxCacheSize THEN Tail(cache) ELSE cache
    IN  Append(kept, [key |-> key, data |-> product_data])

\* the ProcessedInput of a URL, with the cache afterwards and the network
\* requests made: heads (shortener expansion) and scrapes
UrlResult(cache, expanded_url, product_data, from_cache, heads, scrapes) ==
    [cache |-> cache, raised |-> FALSE, expanded_url |-> UrlText(expanded_url),
     product_data |-> product_data, cache_hit |-> from_cache,
     query_text |-> IF product_data.found THEN _product_to_text(product_data)
                    ELSE UrlText(expanded_url),
     heads |-> heads, scrapes |-> scrapes, evicted |-> <<"None", "None">>,
     head_timeout |-> 0]

\* InputHandler.process on a URL
InputHandler_process(cache, url, head, scrape) ==
    LET quick == _extract_platform_info(url)
        quick_key == <<quick.platform, quick.product_id>>
        shortened == _is_shortened_url(url)
        expansion == IF shortened THEN _expand_url(url, head)
                     ELSE [url |-> url, raised |-> FALSE, timeout |-> 0,
                           attempts |-> 0]
        expanded_url == expansion.url
        heads == expansion.attempts
        info == _extract_platform_info(expanded_url)
        key == CacheKey(info.platform, info.product_id, expanded_url)
        product_data == _scrape_product_url(expanded_url, scrape)
        none == [found |-> FALSE, name |-> <<>>]
        sent == [head_timeout |-> expansion.timeout]
    IN  IF quick.platform # "None" /\ quick.product_id # "None"
           /\ Cached(cache, quick_key) # {}
        THEN UrlResult(cache, url,
                       cache[CHOOSE i \in Cached(cache, quick_key) : TRUE].data,
                       TRUE, 0, 0)
        ELSE IF expansion.raised
        THEN [UrlResult(cache, url, none, FALSE, heads, 0) EXCEPT
                 !.raised = TRUE, !.query_text = <<>>,
                 !.head_timeout = sent.head_timeout]
        ELSE IF info.platform = "None"
        THEN [UrlResult(cache, expanded_url, none, FALSE, heads, 0) EXCEPT
                 !.head_timeout = sent.head_timeout]
        ELSE IF Cached(cache, key) # {}
        THEN [UrlResult(cache, expanded_url,
                        cache[CHOOSE i \in Cached(cache, key) : TRUE].data,
                        TRUE, heads, 0) EXCEPT
                 !.head_timeout = sent.head_timeout]
        ELSE IF product_data.found
        THEN [UrlResult(_cache_product(cache, key, product_data), expanded_url,
                        product_data, FALSE, heads, 1) EXCEPT
                 !.evicted = IF Len(cache) >= MaxCacheSize THEN cache[1].key
                             ELSE <<"None", "None">>,
                 !.head_timeout = sent.head_timeout]
        ELSE [UrlResult(cache, expanded_url, none, FALSE, heads, 1) EXCEPT
                 !.head_timeout = sent.head_timeout]

\* _product_cache, the cache of the copy that is never cleared, the last
\* call (its input, the key read from the raw URL, the scraper's behaviour)
\* and its response, the key it logged as evicted, the query_text of the
\* copy's response, and the clearings so far
NoInputHandler ==
    [_product_cache |-> <<>>, uncleared_cache |-> <<>>, op |-> "none",
     input |-> [pad |-> FALSE, toks |-> <<>>], quick_key |-> <<"None", "None">>,
     scrape |-> "page", raised |-> FALSE, expanded_url |-> <<>>,
     product_data |-> [found |-> FALSE, name |-> <<>>], cache_hit |-> FALSE,
     query_text |-> <<>>, heads |-> 0, scrapes |-> 0,
     evicted |-> <<"None", "None">>, uncleared_text |-> <<>>, clears |-> 0,
     head_timeout |-> 0]

(***************************************************************************)
(* The system: the module-level singletons, the orchestrator class and one *)
(* request at a time                                                       *)
(***************************************************************************)
\* the last call made: what it was, whether it raised, what it returned, the
\* health probe and the client call made within it
NoCall(op) ==
    [op |-> op, raised |-> FALSE, ret |-> 0, probe |-> "none", cached |-> FALSE,
     called |-> FALSE, post |-> "none", healthy_before |-> FALSE,
     config |-> "None", debug_mode |-> FALSE,
     flags |-> [romanized |-> FALSE, native |-> FALSE], target |-> "none",
     unchanged |-> FALSE, post_timeout |-> 0, post_attempts |-> 0,
     after_reset |-> FALSE, existed_at_reset |-> -1, service |-> "none",
     text |-> <<>>, use_ner |-> FALSE, ner |-> "None",
     features |-> extract(<<>>, FALSE, "None")]

IdleRequest ==
    [pc |-> "idle", obj |-> 0, user_input |-> [pad |-> FALSE, toks |-> <<>>],
     normalized_text |-> <<>>, corrected_text |-> <<>>, step3 |-> NoStep3,
     code_mix |-> NoResult, english_text |-> <<>>,
     features |-> extract(<<>>, FALSE, "None"),
     expanded_query |-> <<>>, trace |-> <<>>, client_calls |-> 0,
     stage_times |-> {}, response |-> NoResponse, failure |-> NoFailure]

NoClassification ==
    [stage |-> "input", q |-> <<>>, via |-> "none", step3 |-> NoStep3,
     use_smart |-> TRUE, res |-> NoResult]

\* text queries sent to process_async; pad: the input has surrounding blanks
RequestInputs ==
    {[pad |-> FALSE, toks |-> <<C(<<"De", "De">>)>>],
     [pad |-> TRUE, toks |-> <<W("wireles"), W("best")>>],
     [pad |-> FALSE, toks |-> <<W("mujhe"), W("chahiye")>>],
     [pad |-> FALSE, toks |-> <<W("mujhe"), C(<<"De", "De">>)>>]}

\* what the language models answer within a request
RequestLidOutputs ==
    {[lang |-> "en", conf |-> 86, ok |-> TRUE],
     [lang |-> "hi", conf |-> 86, ok |-> TRUE],
     [lang |-> "hi", conf |-> 60, ok |-> TRUE],
     [lang |-> "ne", conf |-> 86, ok |-> TRUE],
     [lang |-> "none", conf |-> 0, ok |-> FALSE]}

RequestSmartOutputs ==
    {[lang |-> "None", conf |-> 0], [lang |-> "hi_Latn", conf |-> 45]}

\* texts sent to the client directly
ClientTexts == {<<W("mujhe"), W("chahiye")>>}

\* the threads that call the constructor: where each one is in __new__ and
\* __init__, what its test of cls._instance found, and the object it holds
Callers == {1, 2}

NoCaller ==
    [pc |-> "call", saw_none |-> FALSE, self |-> 0, ret |-> 0,
     config |-> "None", debug_mode |-> FALSE, loaded |-> FALSE]

NoCallers == [t \in Callers |-> NoCaller]

\* the process has just started: no singleton exists
InitStartup ==
    /\ cls = NoClassification
    /\ tc = NoClient
    /\ s5 = NoStep5
    /\ orch = NoOrchestrator
    /\ req = IdleRequest
    /\ last = NoCall("init")
    /\ ih = NoInputHandler
    /\ callers = NoCallers

\* the Step 5 singletons were built against a healthy service
InitService ==
    /\ cls = NoClassification
    /\ tc = TransliterationClient("loaded")
    /\ \E reply \in LanguageReplies :
          s5 = get_step5_pipeline(NoStep5, tc, "none", reply).s5
    /\ orch = NoOrchestrator
    /\ req = IdleRequest
    /\ last = NoCall("init")
    /\ ih = NoInputHandler
    /\ callers = NoCallers

\* requests served so far by all objects
Served ==
    LET RECURSIVE Sum(_)
        Sum(n) == IF n = 0 THEN 0
                  ELSE orch.objs[n].metrics.total_queries + Sum(n - 1)
    IN  Sum(MaxObjects)

Idle == req.pc \in {"idle", "returned", "raised"}

\* OptimizedSemanticPipeline(config, debug_mode)
Construct ==
    /\ Idle
    /\ orch._instance # 0 \/ orch.allocated < MaxObjects
    /\ \E args \in ConstructorArgs, deps \in Deps,
          probe \in ProbesFor(tc), reply \in RepliesFor(s5) :
          \E class \in {__new__(orch)} :
          \E r \in {__init__(class.objs[class._instance], class._initialized,
                             s5, tc, args.config, args.debug_mode, deps, probe,
                             reply)} :
          LET id == class._instance
          IN  /\ r.obj.loads <= MaxLoads
              /\ orch' = [class EXCEPT !.objs[id] = r.obj,
                                       !.existed_at_reset = IF r.raised THEN @ ELSE -1]
              /\ s5' = r.s5
              /\ tc' = r.tc
              /\ last' = [NoCall("construct") EXCEPT
                             !.raised = r.raised,
                             !.ret = IF r.raised THEN 0 ELSE id,
                             !.probe = r.probe, !.cached = r.cached,
                             !.config = args.config,
                             !.debug_mode = args.debug_mode,
                             !.after_reset = orch.existed_at_reset >= 0,
                             !.existed_at_reset = orch.existed_at_reset]
    /\ UNCHANGED <<ih, cls, req, callers>>

\* get_optimized_pipeline(config, debug_mode): the module's instance if there
\* is one, else a construction whose result is kept when it does not raise
GetOptimizedPipeline ==
    /\ Idle
    /\ \/ /\ orch._pipeline_instance # 0
          /\ \E args \in ConstructorArgs :
                last' = [NoCall("get_optimized_pipeline") EXCEPT
                            !.ret = orch._pipeline_instance,
                            !.cached = TRUE,
                            !.config = args.config,
                            !.debug_mode = args.debug_mode,
                            !.after_reset = orch.existed_at_reset >= 0,
                            !.existed_at_reset = orch.existed_at_reset]
          /\ orch' = [orch EXCEPT !.existed_at_reset = -1]
          /\ UNCHANGED <<s5, tc>>
       \/ /\ orch._pipeline_instance = 0
          /\ orch._instance # 0 \/ orch.allocated < MaxObjects
          /\ \E args \in ConstructorArgs, deps \in Deps,
                probe \in ProbesFor(tc), reply \in RepliesFor(s5) :
                LET class == __new__(orch)
                    id == class._instance
                    r == __init__(class.objs[id], class._initialized, s5, tc,
                                  args.config, args.debug_mode, deps, probe, reply)
                IN  /\ r.obj.loads <= MaxLoads
                    /\ orch' = [class EXCEPT
                                   !.objs[id] = r.obj,
                                   !._pipeline_instance = IF r.raised THEN 0 ELSE id,
                                   !.existed_at_reset = IF r.raised THEN @ ELSE -1]
                    /\ s5' = r.s5
                    /\ tc' = r.tc
                    /\ last' = [NoCall("get_optimized_pipeline") EXCEPT
                                   !.raised = r.raised,
                                   !.ret = IF r.raised THEN 0 ELSE id,
                                   !.probe = r.probe, !.cached = r.cached,
                                   !.config = args.config,
                                   !.debug_mode = args.debug_mode,
                                   !.after_reset = orch.existed_at_reset >= 0,
                                   !.existed_at_reset = orch.existed_at_reset]
    /\ UNCHANGED <<ih, cls, req, callers>>

\* OptimizedSemanticPipeline.reset_for_testing()
ResetForTesting ==
    /\ Idle
    /\ orch' = [orch EXCEPT !._instance = 0, !._initialized = FALSE,
                            !.existed_at_reset = orch.allocated]
    /\ last' = NoCall("reset_for_testing")
    /\ UNCHANGED <<ih, cls, tc, s5, req, callers>>

\* get_step5_pipeline() called directly; health: what the service's /health
\* would answer at that time, which only a client being built asks for
GetStep5Pipeline ==
    /\ Idle
    /\ \E health \in ProbeOutcomes, reply \in RepliesFor(s5) :
          LET probe == IF tc.exists THEN "none" ELSE health
              r == get_step5_pipeline(s5, tc, probe, reply)
          IN  /\ s5' = r.s5
              /\ tc' = r.tc
              /\ last' = [NoCall("get_step5_pipeline") EXCEPT
                             !.raised = r.raised, !.probe = r.probe,
                             !.service = health]
    /\ UNCHANGED <<ih, cls, orch, req, callers>>

\* TransliterationClient.transliterate() called directly; post: what the
\* service would answer to a POST at that time
Transliterate ==
    /\ Idle
    /\ tc.exists
    /\ \E text \in ClientTexts, lang \in {"hi", "bn"}, post \in PostOutcomes :
          LET r == transliterate(tc, text, lang, post)
          IN  /\ tc' = r.client
              /\ last' = [NoCall("transliterate") EXCEPT
                             !.raised = r.raised, !.called = TRUE,
                             !.post = r.post,
                             !.service = post,
                             !.post_timeout = r.timeout,
                             !.post_attempts = r.attempts,
                             !.healthy_before = tc._is_healthy]
    /\ UNCHANGED <<ih, cls, s5, orch, req, callers>>

\* arguments a caller of Step5TransliterationPipeline.process may pass
ProcessFlags == [romanized : BOOLEAN, native : BOOLEAN]

ProcessTargets == {"en", "eng", "hi", "hin_Deva", "ur"}

ProcessRomanizedLanguages == {"None", "hindi", "telugu", "none"}

\* Step5TransliterationPipeline.process() called directly; the service is
\* asked for an answer only by a call that reaches the client
Step5Process ==
    /\ Idle
    /\ s5.exists
    /\ \E query \in ClientTexts, flags \in ProcessFlags,
          target_lang \in ProcessTargets,
          romanized_language \in ProcessRomanizedLanguages :
       \E post \in IF process(s5, tc, query, flags, target_lang,
                              romanized_language, "ok").called
                   THEN PostOutcomes ELSE {"ok"} :
          LET r == process(s5, tc, query, flags, target_lang,
                           romanized_language, post)
          IN  /\ tc' = r.client
              /\ last' = [NoCall("process") EXCEPT
                             !.raised = r.raised, !.called = r.called,
                             !.post = r.post,
                             !.healthy_before = r.healthy_before,
                             !.flags = flags,
                             !.target = ResolveTarget(target_lang,
                                                      romanized_language),
                             !.unchanged = (~r.raised /\ r.text = query)]
    /\ UNCHANGED <<ih, cls, s5, orch, req, callers>>

\* words of the texts given to the feature extractor
ExtractWords ==
    {"laptop", "charger", "redmi", "5g", "dell", "intel", "p1", "8gb ram",
     "128gb storage", "chahiye"}

\* FeatureExtractor(use_ner).extract(text) called directly; ner: what the NER
\* model finds in the text
Extract ==
    /\ Idle
    /\ \E text \in UNION {[1..n -> {W(w) : w \in ExtractWords}] : n \in 0..MaxTokens},
          use_ner \in BOOLEAN, ner \in {"None", "chahiye"} :
          last' = [NoCall("extract") EXCEPT
                      !.text = text, !.use_ner = use_ner, !.ner = ner,
                      !.features = extract(text, use_ner, ner)]
    /\ UNCHANGED <<ih, cls, tc, s5, orch, req, callers>>

Self == orch.objs[req.obj]

Ran(stage, r) ==
    [r EXCEPT !.pc = NextStage(stage), !.trace = Append(req.trace, stage),
              !.stage_times = req.stage_times \cup StageTimeKeys(stage)]

\* process_async is left after `stage`, by a return or an exception: its
\* locals are gone, the caller holds the response or the exception
Left(how, stage, calls) ==
    [IdleRequest EXCEPT !.pc = how, !.trace = Append(req.trace, stage),
                        !.client_calls = calls]

\* process_async is entered: the query counter, then Step 1
Step1InputAdapter ==
    /\ Idle
    /\ orch._instance # 0
    /\ CanServe(orch.objs[orch._instance])
    /\ Served < MaxRequests
    /\ \E user_input \in RequestInputs :
          req' = [IdleRequest EXCEPT
                     !.pc = NextStage("input_adapter"),
                     !.obj = orch._instance,
                     !.user_input = user_input,
                     !.normalized_text = strip(user_input),
                     !.trace = <<"input_adapter">>,
                     !.stage_times = StageTimeKeys("input_adapter")]
    /\ orch' = [orch EXCEPT !.objs[orch._instance].metrics.total_queries = @ + 1]
    /\ last' = NoCall("process_async")
    /\ UNCHANGED <<ih, cls, tc, s5, callers>>

Step2SpellCorrector ==
    /\ req.pc = "spell_corrector"
    /\ req' = Ran("spell_corrector",
                  [req EXCEPT !.corrected_text = correct(req.normalized_text)])
    /\ UNCHANGED <<ih, cls, tc, s5, orch, last, callers>>

Step3Tokenizer ==
    /\ req.pc = "tokenizer"
    /\ \E lid \in RequestLidOutputs, smart \in RequestSmartOutputs :
          req' = Ran("tokenizer",
                     [req EXCEPT !.step3 =
                         tokenize_step3_strict(req.corrected_text, lid, smart)])
    /\ UNCHANGED <<ih, cls, tc, s5, orch, last, callers>>

\* the orchestrator builds its detector without a model session
Step4CodeMix ==
    /\ req.pc = "code_mix"
    /\ req' = Ran("code_mix",
                  [req EXCEPT !.code_mix =
                      detect(req.corrected_text, req.step3.script_tags,
                             req.step3.language, req.step3.language_confidence,
                             TRUE,
                             [state |-> "none", label |-> "ambiguous",
                              confidence |-> 0])])
    /\ UNCHANGED <<ih, cls, tc, s5, orch, last, callers>>

Step5Routing ==
    /\ req.pc = "step5_routing"
    /\ \E post \in PostOutcomes, quick \in BOOLEAN :
          LET r == RouteStep5(Self, s5, tc, req.corrected_text,
                              req.step3.language, req.step3.language_confidence,
                              req.code_mix, post, quick)
              calls == IF r.called THEN 1 ELSE 0
          IN  /\ orch' = [orch EXCEPT !.objs[req.obj] = r.obj]
              /\ tc' = r.client
              /\ req' = IF r.raised
                        THEN [Left("raised", "step5_routing", calls) EXCEPT
                                 !.failure = RuntimeError("Transliteration failed")]
                        ELSE Ran("step5_routing",
                                 [req EXCEPT !.english_text = r.text,
                                             !.client_calls = calls])
    /\ UNCHANGED <<ih, cls, s5, last, callers>>

\* the extractor's NER model may be missing, and finds a category or not
Step6FeatureExtraction ==
    /\ req.pc = "feature_extraction"
    /\ \E use_ner \in BOOLEAN, ner \in {"None", "chahiye"} :
          req' = Ran("feature_extraction",
                     [req EXCEPT !.features =
                         extract(req.english_text, use_ner, ner)])
    /\ UNCHANGED <<ih, cls, tc, s5, orch, last, callers>>

\* exact_match: the resolver knows the product code
EarlyExitCheck ==
    /\ req.pc = "early_exit_check"
    /\ \E exact_match \in BOOLEAN :
          LET looked_up == req.features.product_code # "None"
              stage_times == req.stage_times \cup
                                 (IF looked_up THEN {"early_exit"} ELSE {})
          IN  req' = IF looked_up /\ exact_match
                     THEN [Left("returned", "early_exit_check", req.client_calls)
                              EXCEPT !.response = early_exit_result(stage_times)]
                     ELSE [Ran("early_exit_check", req) EXCEPT
                              !.stage_times = stage_times]
    /\ UNCHANGED <<ih, cls, tc, s5, orch, last, callers>>

Step7SynonymExpansion ==
    /\ req.pc = "synonym_expansion"
    /\ req' = Ran("synonym_expansion",
                  [req EXCEPT !.expanded_query = expand_query(req.english_text)])
    /\ UNCHANGED <<ih, cls, tc, s5, orch, last, callers>>

\* quick: the embedding took under 10 ms
Step8Embedding ==
    /\ req.pc = "embedding"
    /\ \E quick \in BOOLEAN :
          orch' = [orch EXCEPT
                      !.objs[req.obj].embedding_cache = @ \cup {req.expanded_query},
                      !.objs[req.obj].metrics.cache_hits =
                          IF quick THEN @ + 1 ELSE @]
    /\ req' = Ran("embedding", req)
    /\ UNCHANGED <<ih, cls, tc, s5, last, callers>>

Step9VectorSearch ==
    /\ req.pc = "vector_search"
    /\ req' = Ran("vector_search", req)
    /\ UNCHANGED <<ih, cls, tc, s5, orch, last, callers>>

\* the last stage, the running average and the response; include_metadata is
\* the caller's argument, read here for the first time
Step10ProductResolution ==
    /\ req.pc = "product_resolution"
    /\ \E include_metadata \in BOOLEAN :
          req' = [Left(NextStage("product_resolution"), "product_resolution",
                       req.client_calls)
                     EXCEPT !.response =
                         result(req.stage_times \cup
                                    StageTimeKeys("product_resolution"),
                                include_metadata)]
    /\ \E total_latency \in Latencies :
          orch' = [orch EXCEPT !.objs[req.obj].metrics =
                      UpdateRunningAverage(@, total_latency)]
    /\ UNCHANGED <<ih, cls, tc, s5, last, callers>>

NextStartup ==
    \/ Construct
    \/ GetOptimizedPipeline
    \/ ResetForTesting
    \/ GetStep5Pipeline
    \/ Transliterate

SpecStartup == InitStartup /\ [][NextStartup]_vars

\* the Step 5 singletons on their own
NextStep5 ==
    \/ GetStep5Pipeline
    \/ Transliterate
    \/ Step5Process

SpecStep5 == InitStartup /\ [][NextStep5]_vars

\* the feature extractor on its own
SpecExtract == InitStartup /\ [][Extract]_vars

NextService ==
    \/ Construct
    \/ ResetForTesting
    \/ Step1InputAdapter
    \/ Step2SpellCorrector
    \/ Step3Tokenizer
    \/ Step4CodeMix
    \/ Step5Routing
    \/ Step6FeatureExtraction
    \/ EarlyExitCheck
    \/ Step7SynonymExpansion
    \/ Step8Embedding
    \/ Step9VectorSearch
    \/ Step10ProductResolution

SpecService == InitService /\ [][NextService]_vars

(***************************************************************************)
(* The input adapter on its own                                            *)
(***************************************************************************)
InitCache ==
    /\ cls = NoClassification
    /\ tc = NoClient
    /\ s5 = NoStep5
    /\ orch = NoOrchestrator
    /\ req = IdleRequest
    /\ last = NoCall("init")
    /\ ih = NoInputHandler
    /\ callers = NoCallers

\* a request with a product URL
ProcessUrl ==
    /\ \E url \in Urls, head \in HeadOutcomes, scrape \in ScrapeOutcomes :
          \E r \in {InputHandler_process(ih._product_cache, url, head, scrape)},
             u \in {InputHandler_process(ih.uncleared_cache, url, head, scrape)},
             quick \in {_extract_platform_info(url)} :
              ih' = [ih EXCEPT !._product_cache = r.cache,
                               !.uncleared_cache = u.cache,
                               !.op = "url",
                               !.input = [pad |-> FALSE, toks |-> UrlText(url)],
                               !.quick_key = <<quick.platform, quick.product_id>>,
                               !.scrape = scrape,
                               !.raised = r.raised,
                               !.expanded_url = r.expanded_url,
                               !.product_data = r.product_data,
                               !.cache_hit = r.cache_hit,
                               !.query_text = r.query_text,
                               !.heads = r.heads,
                               !.head_timeout = r.head_timeout,
                               !.scrapes = r.scrapes,
                               !.evicted = r.evicted,
                               !.uncleared_text = u.query_text]
    /\ UNCHANGED <<cls, tc, s5, orch, req, last, callers>>

\* a request with a text query: the fast path of InputHandler.process
ProcessText ==
    /\ \E user_input \in TextInputs :
          ih' = [NoInputHandler EXCEPT
                    !._product_cache = ih._product_cache,
                    !.uncleared_cache = ih.uncleared_cache,
                    !.clears = ih.clears,
                    !.op = "text",
                    !.input = user_input,
                    !.query_text = strip(user_input),
                    !.uncleared_text = strip(user_input)]
    /\ UNCHANGED <<cls, tc, s5, orch, req, last, callers>>

\* InputHandler.clear_cache() between two requests
ClearCache ==
    /\ ih.clears < MaxClears
    /\ ih' = [ih EXCEPT !._product_cache = <<>>, !.clears = @ + 1,
                        !.op = "clear", !.evicted = <<"None", "None">>]
    /\ UNCHANGED <<cls, tc, s5, orch, req, last, callers>>

NextCache == ProcessUrl \/ ProcessText \/ ClearCache

SpecCache == InitCache /\ [][NextCache]_vars

(***************************************************************************)
(* Steps 3 and 4 on their own                                              *)
(***************************************************************************)
InitClassify ==
    /\ cls \in [stage : {"input"}, q : Queries, via : {"none"}, step3 : {NoStep3},
                use_smart : {TRUE}, res : {NoResult}]
    /\ tc = NoClient
    /\ s5 = NoStep5
    /\ orch = NoOrchestrator
    /\ req = IdleRequest
    /\ last = NoCall("init")
    /\ ih = NoInputHandler
    /\ callers = NoCallers

\* Step 3 on the corrected text
Step3 ==
    /\ cls.stage = "input"
    /\ \E lid \in LidOutputs, smart \in SmartOutputs :
          cls' = [cls EXCEPT !.stage = "tagged", !.via = "step3",
                             !.step3 = tokenize_step3_strict(cls.q, lid, smart)]
    /\ UNCHANGED <<ih, tc, s5, orch, req, last, callers>>

\* a caller that passes its own language hint with the Step 3 tags
SupplyHint ==
    /\ cls.stage = "input"
    /\ \E l \in HintLangs, c \in HintConfs :
          cls' = [cls EXCEPT !.stage = "tagged", !.via = "caller",
                             !.step3 = [tokens |-> cls.q,
                                        script_tags |-> TagTokens(cls.q),
                                        language |-> l,
                                        language_confidence |-> c,
                                        lid_calls |-> 0]]
    /\ UNCHANGED <<ih, tc, s5, orch, req, last, callers>>

\* Step 4 on the Step 3 output
Step4 ==
    /\ cls.stage = "tagged"
    /\ \E use \in BOOLEAN, onnx \in OnnxOutputs :
          cls' = [cls EXCEPT !.stage = "done", !.use_smart = use,
                             !.res = detect(cls.q, cls.step3.script_tags,
                                            cls.step3.language,
                                            cls.step3.language_confidence,
                                            use, onnx)]
    /\ UNCHANGED <<ih, tc, s5, orch, req, last, callers>>

NextClassify == Step3 \/ SupplyHint \/ Step4

SpecClassify == InitClassify /\ [][NextClassify]_vars

(***************************************************************************)
(* Claims about Steps 3 and 4, checked under SpecClassify                  *)
(***************************************************************************)
ClsDone == cls.stage = "done"

ClsWordScripts == WordScripts(cls.step3.script_tags)

ClsAllLatin == ClsWordScripts # {} /\ \A s \in ClsWordScripts : s = "Latin"

\* C2: the skip flag of every result of detect is true exactly when the label
\* is pure_english or pure_native and the confidence is at least 0.75
C2_SkipFlagIffConfidentPure ==
    ClsDone =>
        (cls.res.skip_step5 <=>
            \/ cls.res.label = "pure_english" /\ cls.res.confidence >= 75
            \/ cls.res.label = "pure_native" /\ cls.res.confidence >= 75)

C2_Witness ==
    /\ ClsDone
    /\ cls.res.label = "pure_english"
    /\ cls.res.confidence = 75
    /\ cls.res.skip_step5

\* C8: the Smart Checkpoint runs only on an ambiguous Fast Lane result, and a
\* pure_native or pure_english Fast Lane result is returned unchanged
C8_SmartCheckpointOnlyOnAmbiguous ==
    ClsDone =>
        /\ cls.res.smart_invoked => cls.res.fast.label = "ambiguous"
        /\ cls.res.fast.label \in {"pure_native", "pure_english"} =>
              /\ ~cls.res.smart_invoked
              /\ cls.res.label = cls.res.fast.label
              /\ cls.res.confidence = cls.res.fast.confidence
              /\ cls.res.method = cls.res.fast.method

C8_Witness ==
    /\ ClsDone
    /\ cls.use_smart
    /\ cls.res.fast.label = "pure_english"
    /\ cls.res.method = "fast_lane"
    /\ count_english_markers(cls.q) >= 2

\* the characters of the text all lie in one native Indic block
BlockOf(c) == CASE c \in {"De", "De0"} -> "Devanagari"
                [] c = "Be" -> "Bengali"
                [] c \in {"Ta", "Ta0"} -> "Tamil"
                [] c = "Pa" -> "Punjabi"
                [] OTHER -> "none"

SingleNativeScript(q) ==
    /\ q # <<>>
    /\ \E b \in {"Devanagari", "Bengali", "Tamil", "Punjabi"} :
          \A p \in AllChars(q) : BlockOf(q[p[1]].cs[p[2]]) = b

C10_Original ==
    (/\ ClsDone
     /\ ClsAllLatin
     /\ cls.step3.language = "en"
     /\ cls.step3.language_confidence >= 85) =>
        /\ cls.res.label = "pure_english"
        /\ cls.res.method = "fast_lane"
        /\ cls.res.confidence = cls.step3.language_confidence

\* C10 amended: the same above 0.85; at exactly 0.85 the Fast Lane does not
\* match and returns ambiguous
C10_RuleBAboveThreshold ==
    /\ (/\ ClsDone
        /\ ClsAllLatin
        /\ cls.step3.language = "en"
        /\ cls.step3.language_confidence > 85) =>
           /\ cls.res.label = "pure_english"
           /\ cls.res.method = "fast_lane"
           /\ cls.res.confidence = cls.step3.language_confidence
    /\ (/\ ClsDone
        /\ ClsAllLatin
        /\ cls.step3.language = "en"
        /\ cls.step3.language_confidence = 85) =>
           cls.res.fast.label = "ambiguous"

C10_Witness ==
    /\ ClsDone
    /\ ClsAllLatin
    /\ cls.step3.language = "en"
    /\ cls.step3.language_confidence = 86
    /\ cls.res.label = "pure_english"
    /\ cls.res.method = "fast_lane"
    /\ cls.res.confidence = 86

\* C13: whenever Step 4 labels a query romanized_indic, the romanized_language
\* of its details is a key of LANGUAGE_NAME_TO_ISO, which Step 5 resolves to a
\* non-English ISO code
C13_RomanizedLanguageIsKnownName ==
    (ClsDone /\ cls.res.label = "romanized_indic") =>
        LANGUAGE_NAME_TO_ISO(cls.res.romanized_language, "en") # "en"

\* C19: during one Step 3 call the LID model is invoked at most once, on
\* every path through the fast paths and fallbacks
C19_LidAtMostOnce ==
    cls.via = "step3" => cls.step3.lid_calls <= 1

(***************************************************************************)
(* Claims about the orchestrator's requests, checked under SpecService     *)
(***************************************************************************)
\* C1: in every request whose Step 4 result has skip_step5 true, the
\* transliteration client is not called and the text handed to feature
\* extraction is corrected_text
C1_SkipMeansNoClientCall ==
    (req.pc = "feature_extraction" /\ req.code_mix.skip_step5) =>
        (req.client_calls = 0 /\ req.english_text = req.corrected_text)

\* C3: within one process_async call the stages run in the order input
\* adapter, spell corrector, tokenizer, code-mix classifier, Step 5 routing,
\* feature extraction, early-exit check, synonym expansion, embedding, vector
\* search, product resolution, each after the previous one has returned and
\* none more than once
C3_Order ==
    <<"input_adapter", "spell_corrector", "tokenizer", "code_mix",
      "step5_routing", "feature_extraction", "early_exit_check",
      "synonym_expansion", "embedding", "vector_search", "product_resolution">>

C3_StagesInOrder ==
    /\ Len(req.trace) <= Len(C3_Order)
    /\ \A i \in 1..Len(req.trace) : req.trace[i] = C3_Order[i]
    /\ ~Idle => (Len(req.trace) < Len(C3_Order)
                 /\ req.pc = C3_Order[Len(req.trace) + 1])

C3_Witness ==
    /\ req.pc = "returned"
    /\ req.trace = C3_Order
    /\ Served = 2

\* C5: constructing the orchestrator again, once an earlier construction has
\* completed, returns the same object and changes nothing: the components
\* are not re-created, and config, debug_mode and metrics keep their values
C5_SecondConstructionIsNoOp ==
    [][(/\ Construct
        /\ orch._instance # 0
        /\ orch.objs[orch._instance]._initialized = "True") =>
           (/\ ~last'.raised
            /\ last'.ret = orch._instance
            /\ orch' = orch
            /\ s5' = s5
            /\ tc' = tc)]_vars

C5_Witness ==
    /\ last.op = "construct"
    /\ last.cached
    /\ last.config = "custom"
    /\ last.debug_mode
    /\ last.ret = orch._instance
    /\ orch.objs[last.ret].config = "empty"
    /\ ~orch.objs[last.ret].debug_mode
    /\ orch.objs[last.ret].metrics.total_queries = 1
    /\ orch.objs[last.ret].loads = 1

(***************************************************************************)
(* Claims about startup and the client, checked under SpecStartup          *)
(***************************************************************************)
\* C6: a transliterate call that hits a connection error raises and leaves
\* the client unhealthy (is_available() false), and a transliterate call
\* made while the client is unhealthy raises without reaching the service
C6_ConnectionErrorMarksUnhealthy ==
    /\ (last.op = "transliterate" /\ last.post = "conn_error") =>
           (last.raised /\ ~is_available(tc))
    /\ (last.op = "transliterate" /\ ~last.healthy_before) =>
           (last.raised /\ last.post = "none" /\ ~is_available(tc))

C6_Witness ==
    /\ last.op = "transliterate"
    /\ ~last.healthy_before
    /\ last.raised
    /\ s5.exists
    /\ tc.cache # {}

\* C7: building the Step 5 pipeline, directly or within the orchestrator's
\* construction, raises whenever the startup health probe answers anything
\* but model_loaded true, and leaves no pipeline that can serve requests
C7_FailedProbeRaises ==
    (/\ last.op \in {"construct", "get_step5_pipeline"}
     /\ last.probe \in {"conn_error", "status_500", "not_loaded", "key_missing"}) =>
        /\ last.raised
        /\ ~s5.exists
        /\ \A i \in DOMAIN orch.objs :
              orch.objs[i]._initialized # "True" /\ orch.objs[i].components # "all"

C7_Witness ==
    /\ last.op = "construct"
    /\ last.probe = "key_missing"
    /\ last.raised
    /\ orch._instance # 0
    /\ orch.objs[orch._instance].components = "partial"

\* the ISO code Step 5 resolves for a Step 4 result, as process_async passes it
Step5Target(code_mix_result) ==
    lang_normalization(LANGUAGE_NAME_TO_ISO(
        IF code_mix_result.romanized_language = "absent" THEN "hindi"
        ELSE code_mix_result.romanized_language, "en"))

\* C11: in every request labelled romanized_indic or mixed whose romanized
\* language resolves to a supported Indic code, Step 5 takes the text from the
\* transliteration client: the query is not returned without a client call
C11_RomanizedOrMixedCallsClient ==
    (/\ req.pc = "feature_extraction"
     /\ req.code_mix.label \in {"romanized_indic", "mixed"}
     /\ Step5Target(req.code_mix) # "en"
     /\ Step5Target(req.code_mix) \in s5.supported_languages) =>
        req.client_calls = 1

\* C25: after reset_for_testing(), the next acquisition of the pipeline, by
\* direct construction or through get_optimized_pipeline(config), yields a
\* newly initialized instance built with the newly supplied config, not the
\* instance that existed before the reset
C25_AcquisitionAfterResetIsNew ==
    (/\ last.op \in {"construct", "get_optimized_pipeline"}
     /\ last.after_reset
     /\ ~last.raised) =>
        /\ last.ret > last.existed_at_reset
        /\ orch.objs[last.ret]._initialized = "True"
        /\ orch.objs[last.ret].config =
               (IF last.config = "None" THEN "empty" ELSE last.config)
        /\ orch.objs[last.ret].debug_mode = last.debug_mode

\* C26: a lost transliteration connection is a per-request fault: only the
\* requests made while the service is unreachable fail; once the service is
\* reachable and healthy again, a transliteration request, or a construction
\* of the Step 5 pipeline after a failed startup probe, succeeds
C26_FailsOnlyWhileUnreachable ==
    /\ (last.op = "transliterate" /\ last.service = "ok") => ~last.raised
    /\ (last.op = "get_step5_pipeline" /\ last.service = "loaded") =>
           ~last.raised

(***************************************************************************)
(* Claim about Step5TransliterationPipeline.process, checked under         *)
(* SpecStep5                                                               *)
(***************************************************************************)
\* C12: process returns the query unchanged, makes no client call and does
\* not raise whenever the flags are native and not romanized, or neither
\* romanized nor native, or the target resolves to English, or the target is
\* not a supported code
C12_PassThroughCases ==
    (/\ last.op = "process"
     /\ \/ last.flags.native /\ ~last.flags.romanized
        \/ ~last.flags.romanized /\ ~last.flags.native
        \/ last.target = "en"
        \/ last.target \notin s5.supported_languages) =>
        (last.unchanged /\ ~last.called /\ ~last.raised)

\* a romanized query for an unsupported target passes through although the
\* client is unhealthy
C12_Witness ==
    /\ last.op = "process"
    /\ last.flags.romanized
    /\ last.target = "ur"
    /\ s5.supported_languages # {}
    /\ ~tc._is_healthy
    /\ last.unchanged
    /\ ~last.called

(***************************************************************************)
(* Claim about the caches, checked under SpecCache                         *)
(***************************************************************************)
\* C4: caches are observational only: after the product cache has been
\* cleared between requests, every later response carries the query text it
\* would have carried without the clearing
C4_CachesObservationalOnly ==
    (ih.op = "url" /\ ih.scrape = "page") => ih.query_text = ih.uncleared_text

(***************************************************************************)
(* Claims about InputHandler.process, checked under SpecCache              *)
(***************************************************************************)
\* C14: when the platform and product id of a URL input are known and the
\* product cache holds an entry under them, the call returns that entry's data
\* with cache_hit true and makes no network request: no HEAD and no scrape
C14_CachedProductNoNetwork ==
    [][(/\ ih'.op = "url"
        /\ ih'.quick_key[1] # "None"
        /\ ih'.quick_key[2] # "None"
        /\ \E i \in 1..Len(ih._product_cache) :
              ih._product_cache[i].key = ih'.quick_key) =>
       (/\ ~ih'.raised
        /\ ih'.cache_hit
        /\ ih'.heads = 0
        /\ ih'.scrapes = 0
        /\ \E i \in 1..Len(ih._product_cache) :
              /\ ih._product_cache[i].key = ih'.quick_key
              /\ ih'.product_data = ih._product_cache[i].data)]_vars

C14_Witness ==
    /\ ih.op = "url"
    /\ ih.quick_key = <<"amazon", "B01">>
    /\ ih.cache_hit
    /\ ih.product_data.found
    /\ ih.heads = 0
    /\ ih.scrapes = 0

C18_QueryTextNonEmpty ==
    (ih.op \in {"text", "url"} /\ ~ih.raised) => ih.query_text # <<>>

(***************************************************************************)
(* Claims about what process_async hands to its caller, checked under      *)
(* SpecService                                                             *)
(***************************************************************************)
C21_QueryInfoFields ==
    {"original_query", "normalized", "corrected", "processed_query",
     "detected_language", "language_confidence", "tokens", "script_tags",
     "features"}

C21_MetricsFields ==
    {"total_latency_ms", "stage_times_ms", "early_exit", "optimizations",
     "cache_hit_rate"}

\* C21: every response returned by process_async, on the normal path and on
\* the early-exit path alike, contains all query_info fields and all metrics
\* fields
C21_ResponseHasAllFields ==
    req.response.returned =>
        /\ C21_QueryInfoFields \subseteq req.response.query_info
        /\ C21_MetricsFields \subseteq req.response.metrics

\* the stage times process_async had recorded when the last stage of the
\* trace raised
C22_RecordedBeforeFault ==
    UNION {StageTimeKeys(req.trace[i]) : i \in 1..(Len(req.trace) - 1)}

\* C22: when a stage raises and the request is aborted, the failure reported
\* to the caller carries the stage_times of the stages completed before it
C22_FailureCarriesStageTimes ==
    req.pc = "raised" =>
        /\ "stage_times" \in DOMAIN req.failure
        /\ req.failure.stage_times = C22_RecordedBeforeFault

(***************************************************************************)
(* Claim about FeatureExtractor.extract, checked under SpecExtract         *)
(***************************************************************************)
\* C23: category_confidence and category_method identify the source of the
\* category: a regex hit gives (0.95, regex); context inference alone gives
\* (0.85, context); NER alone gives (0.75, ner); no category gives (0.0, none)
C23_CategoryTagNamesSource ==
    last.op = "extract" =>
        LET regex == PATTERNS_category(last.text) # "None"
            context == _infer_category_from_context(last.text) # "None"
            ner == last.use_ner /\ last.ner # "None"
            tag == <<last.features.category_confidence,
                     last.features.category_method>>
        IN  /\ regex => tag = <<95, "regex">>
            /\ (~regex /\ context) => tag = <<85, "context">>
            /\ (~regex /\ ~context /\ ner) => tag = <<75, "ner">>
            /\ (~regex /\ ~context /\ ~ner) => tag = <<0, "none">>

(***************************************************************************)
(* Claim about the HTTP requests of the input adapter and of the           *)
(* transliteration client, checked under SpecCache                         *)
(***************************************************************************)
\* C24: every URL-expansion HEAD request and every transliteration POST
\* carries an explicit timeout of 3 seconds and is attempted exactly once
C24_RequestsThreeSecondsOnce ==
    /\ (ih.op = "url" /\ ih.heads > 0) =>
           (ih.head_timeout = 3 /\ ih.heads = 1)
    /\ (last.op = "transliterate" /\ last.post # "none") =>
           (last.post_timeout = 3 /\ last.post_attempts = 1)

(***************************************************************************)
(* Claim about the product cache's keys, checked under SpecCache           *)
(***************************************************************************)
\* the URL whose text the last response carries as expanded_url
C27_ExpandedUrl ==
    [domain |-> ih.expanded_url[2].lex, id |-> ih.expanded_url[3].lex,
     path |-> ih.expanded_url[4].lex]

\* C27: every product-cache hit returns the product data scraped for the
\* platform and product of the requested URL; URLs that denote different
\* products never share a cache entry, also when no product id could be
\* extracted from them
C27_CacheHitIsSameProduct ==
    (ih.op = "url" /\ ih.cache_hit) =>
        ih.product_data = _scrape_product_url(C27_ExpandedUrl, "page")

(***************************************************************************)
(* Two threads calling OptimizedSemanticPipeline(config, debug_mode): the  *)
(* constructor takes no lock, so a thread can be preempted between any two *)
(* of its reads and writes of cls._instance and self._initialized, and     *)
(* while _initialize_components() waits for the models and the probe       *)
(***************************************************************************)
\* __new__: the test "cls._instance is None"
NewCheck(t) ==
    /\ callers[t].pc = "call"
    /\ \E args \in ConstructorArgs :
          callers' = [callers EXCEPT ![t] =
                         [NoCaller EXCEPT !.pc = "new",
                                          !.saw_none = (orch._instance = 0),
                                          !.config = args.config,
                                          !.debug_mode = args.debug_mode]]
    /\ UNCHANGED <<cls, tc, s5, orch, req, last, ih>>

\* __new__: cls._instance = super().__new__(cls), by a thread whose test
\* found None
NewAssign(t) ==
    /\ callers[t].pc = "new"
    /\ callers[t].saw_none
    /\ orch.allocated < MaxObjects
    /\ orch' = __new__([orch EXCEPT !._instance = 0])
    /\ callers' = [callers EXCEPT ![t].pc = "return"]
    /\ UNCHANGED <<cls, tc, s5, req, last, ih>>

\* __new__: return cls._instance
NewReturn(t) ==
    /\ \/ callers[t].pc = "return"
       \/ callers[t].pc = "new" /\ ~callers[t].saw_none
    /\ callers' = [callers EXCEPT ![t].pc = "init", ![t].self = orch._instance]
    /\ UNCHANGED <<cls, tc, s5, orch, req, last, ih>>

\* __init__: the test "if self._initialized: return"
InitCheck(t) ==
    /\ callers[t].pc = "init"
    /\ callers' =
          IF AlreadyInitialized(orch.objs[callers[t].self], orch._initialized)
          THEN [callers EXCEPT ![t].pc = "done", ![t].ret = callers[t].self]
          ELSE [callers EXCEPT ![t].pc = "components"]
    /\ UNCHANGED <<cls, tc, s5, orch, req, last, ih>>

\* __init__: self.config, self.debug_mode and self._initialize_components()
InitializeComponents(t) ==
    /\ callers[t].pc = "components"
    /\ \E deps \in Deps, probe \in ProbesFor(tc), reply \in RepliesFor(s5) :
          LET id == callers[t].self
              configured ==
                  [orch.objs[id] EXCEPT
                      !.config = IF callers[t].config = "None" THEN "empty"
                                 ELSE callers[t].config,
                      !.debug_mode = callers[t].debug_mode]
              r == _initialize_components(configured, s5, tc, deps, probe, reply)
          IN  /\ orch' = [orch EXCEPT !.objs[id] = r.obj]
              /\ s5' = r.s5
              /\ tc' = r.tc
              /\ callers' = [callers EXCEPT
                                ![t].pc = IF r.raised THEN "raised" ELSE "metrics",
                                ![t].loaded = ~r.raised]
    /\ UNCHANGED <<cls, req, last, ih>>

\* __init__: self.metrics = {...}; self._initialized = True, and the
\* constructor returns the object
FinishInit(t) ==
    /\ callers[t].pc = "metrics"
    /\ orch' = [orch EXCEPT !.objs[callers[t].self] =
                    [@ EXCEPT !.metrics = FreshMetrics, !._initialized = "True"]]
    /\ callers' = [callers EXCEPT ![t].pc = "done", ![t].ret = callers[t].self]
    /\ UNCHANGED <<cls, tc, s5, req, last, ih>>

NextConcurrent ==
    \E t \in Callers :
        \/ NewCheck(t)
        \/ NewAssign(t)
        \/ NewReturn(t)
        \/ InitCheck(t)
        \/ InitializeComponents(t)
        \/ FinishInit(t)

SpecConcurrent == InitStartup /\ [][NextConcurrent]_vars

\* C28: when two callers construct the pipeline concurrently, the components
\* are initialized at most once, and the callers that have returned hold
\* the same instance, which is fully initialized
C28_ConcurrentConstructionInitializesOnce ==
    /\ Cardinality({t \in Callers : callers[t].loaded}) <= 1
    /\ \A t \in Callers :
          callers[t].pc = "done" =>
              /\ CanServe(orch.objs[callers[t].ret])
              /\ \A u \in Callers :
                    callers[u].pc = "done" => callers[u].ret = callers[t].ret

(***************************************************************************)
(* Claims about the orchestrator's counters, checked under SpecService     *)
(***************************************************************************)
\* get_stats()['cache_hit_rate'] of an object, as a whole percentage
C29_cache_hit_rate(self) ==
    (self.metrics.cache_hits * 100) \div
        (IF self.metrics.total_queries > 1 THEN self.metrics.total_queries ELSE 1)

\* C29: after any sequence of requests cache_hits does not exceed
\* total_queries, so the reported cache_hit_rate lies between 0 and 100
C29_CacheHitsWithinQueries ==
    \A i \in ObjIds :
        /\ orch.objs[i].metrics.cache_hits <= orch.objs[i].metrics.total_queries
        /\ C29_cache_hit_rate(orch.objs[i]) \in 0..100

\* the sum of a sequence of latencies
C30_Sum(seq) ==
    LET RECURSIVE Sum(_)
        Sum(k) == IF k = 0 THEN 0 ELSE seq[k] + Sum(k - 1)
    IN  Sum(Len(seq))

\* C30: after any sequence of requests avg_latency is the arithmetic mean
\* of the total latencies of the requests that completed on the normal
\* path, however many other requests ended early or raised
C30_AvgLatencyIsMeanOfNormalPath ==
    \A i \in ObjIds :
        LET m == orch.objs[i].metrics
        IN  m.avg_latency * Len(m.normal_latencies) = C30_Sum(m.normal_latencies)

====
